---- MODULE Spec2Model ----
(***************************************************************************)
(* MK DOCX to PDF Converter v2.1 (MK_script_docx_to_pdf_2.1.py).           *)
(*                                                                         *)
(* The script lists the .docx files of one folder, starts Microsoft Word   *)
(* through COM, and for each file opens it, exports it as PDF and closes   *)
(* it, printing a progress line per file and a summary at the end.         *)
(*                                                                         *)
(* The model is the script's control flow, one action per external call    *)
(* (import, pip, CoInitialize, DispatchEx, Documents.Open, ...).  Each     *)
(* external call either returns or raises; which of the two is the         *)
(* environment's choice.  File names are sequences of one-character        *)
(* strings so that the glob pattern, the "~$" test and os.path.splitext    *)
(* are computed on characters.  The folder's own name and os.name are     *)
(* inputs: the name goes unescaped into the glob pattern, and on Windows   *)
(* the pattern matches without regard to case.                             *)
(***************************************************************************)
EXTENDS Integers, Sequences, FiniteSets, TLC

VARIABLES
    platform,    \* os.name: "posix" or "nt" (Windows)
    base_dir,    \* the name of the folder the script works on
    parent,      \* the listing of the folder that holds base_dir
    pc,          \* the statement of the script that executes next
    docx_files,  \* convert_all_docx_in_folder: docx_files
    total,       \* convert_all_docx_in_folder: total
    index,       \* the for loop's index (0 before the loop)
    pdf_path,    \* the current job's pdf_path
    percent,     \* the last percent computed
    word,        \* the Word.Application handle (0: none)
    doc,         \* the document handle of the last Documents.Open (0: none)
    out,         \* the console transcript: printed lines and input() prompts
    calls,       \* every external call made so far, in order
    status,      \* per job: "pending", "opened", "exported", "succeeded", "failed"
    errors,      \* per job: the exception text printed for it ("" when none)
    running,     \* the Word instances that were started and have not quit
    openDocs,    \* the documents open in Word: records [h, job]
    pdfs,        \* the PDF files written so far
    comInit,     \* CoInitialize calls not yet balanced by CoUninitialize
    exit_code    \* the process exit status (-1 while running)

vars == <<platform, base_dir, parent, pc, docx_files, total, index, pdf_path, percent, word, doc, out,
          calls, status, errors, running, openDocs, pdfs, comInit, exit_code>>

-----------------------------------------------------------------------------
(* Bounds *)

\* The most entries (files and subdirectories) the folders explored hold
\* together.
MaxEntries == 3

\* The largest number of files for which the percent arithmetic is explored.
MaxTotal == 50

-----------------------------------------------------------------------------
(* Strings as character sequences *)

DOCX == <<".", "d", "o", "c", "x">>
PDF == <<".", "p", "d", "f">>
TILDE_DOLLAR == <<"~", "$">>

\* The pattern's file part: os.path.join(base_dir, "*.docx").
STAR_DOCX == <<"*">> \o DOCX

startswith(s, p) == Len(s) >= Len(p) /\ SubSeq(s, 1, Len(p)) = p

endswith(s, p) == Len(s) >= Len(p) /\ SubSeq(s, Len(s) - Len(p) + 1, Len(s)) = p

\* The printable ASCII characters in code order: ASCII[i] is chr(31 + i)
\* ("GRAVE" stands for chr(96), which a string of this notation cannot hold).
ASCII ==
    << " ", "!", "\"", "#", "$", "%", "&", "'", "(", ")", "*", "+",
       ",", "-", ".", "/", "0", "1", "2", "3", "4", "5", "6", "7",
       "8", "9", ":", ";", "<", "=", ">", "?", "@", "A", "B", "C",
       "D", "E", "F", "G", "H", "I", "J", "K", "L", "M", "N", "O",
       "P", "Q", "R", "S", "T", "U", "V", "W", "X", "Y", "Z", "[",
       "\\", "]", "^", "_", "GRAVE", "a", "b", "c", "d", "e", "f", "g",
       "h", "i", "j", "k", "l", "m", "n", "o", "p", "q", "r", "s",
       "t", "u", "v", "w", "x", "y", "z", "{", "|", "}", "~" >>

\* ord(c) - 31 for a printable ASCII character.
Ord(c) == CHOOSE i \in 1..Len(ASCII) : ASCII[i] = c

\* str.lower() on one character ("A" is ASCII[34], "Z" is ASCII[59]).
lower(c) == IF Ord(c) >= 34 /\ Ord(c) <= 59 THEN ASCII[Ord(c) + 32] ELSE c

\* os.path.normcase: the string itself on posix, lower-cased on Windows
\* (platform "nt").
normcase(plat, s) == IF plat = "nt" THEN [i \in 1..Len(s) |-> lower(s[i])] ELSE s

\* glob.has_magic: the string holds one of * ? [
has_magic(s) == \E i \in 1..Len(s) : s[i] \in {"*", "?", "["}

\* fnmatch.translate, "[": the index of the "]" that closes the class opened
\* at pat[i - 1], looked for from j (a "!" and then a "]" right after the
\* "[" are part of the class); greater than Len(pat) when nothing closes it.
RECURSIVE class_scan(_, _)
class_scan(pat, j) ==
    IF j > Len(pat) \/ pat[j] = "]" THEN j ELSE class_scan(pat, j + 1)

class_end(pat, i) ==
    LET j1 == IF i <= Len(pat) /\ pat[i] = "!" THEN i + 1 ELSE i
        j2 == IF j1 <= Len(pat) /\ pat[j1] = "]" THEN j1 + 1 ELSE j1
    IN  class_scan(pat, j2)

\* Whether c is in the character class whose items are stuff[t..]: a "-"
\* between two characters makes a range (empty when it runs backwards),
\* every other character stands for itself.
RECURSIVE in_class(_, _, _)
in_class(c, stuff, t) ==
    IF t > Len(stuff) THEN FALSE
    ELSE IF t + 2 <= Len(stuff) /\ stuff[t + 1] = "-"
         THEN (Ord(stuff[t]) <= Ord(c) /\ Ord(c) <= Ord(stuff[t + 2]))
              \/ in_class(c, stuff, t + 3)
         ELSE c = stuff[t] \/ in_class(c, stuff, t + 1)

\* The regular expression fnmatch.translate(pat) makes, matched against
\* the whole of name from name[j] with the pattern from pat[i]: "*" is any
\* run of characters, "?" any one character, "[...]" one character of the
\* class ("[!...]" one outside it), an unclosed "[" the character itself.
RECURSIVE fn_match(_, _, _, _)
fn_match(name, pat, j, i) ==
    IF i > Len(pat) THEN j > Len(name)
    ELSE IF pat[i] = "*"
         THEN fn_match(name, pat, j, i + 1)
              \/ (j <= Len(name) /\ fn_match(name, pat, j + 1, i))
    ELSE IF j > Len(name) THEN FALSE
    ELSE IF pat[i] = "?" THEN fn_match(name, pat, j + 1, i + 1)
    ELSE IF pat[i] = "["
         THEN LET e == class_end(pat, i + 1)
              IN  IF e > Len(pat)
                  THEN name[j] = "[" /\ fn_match(name, pat, j + 1, i + 1)
                  ELSE LET stuff == SubSeq(pat, i + 1, e - 1)
                           hit == IF stuff[1] = "!"
                                  THEN ~in_class(name[j], stuff, 2)
                                  ELSE in_class(name[j], stuff, 1)
                       IN  hit /\ fn_match(name, pat, j + 1, e + 1)
    ELSE name[j] = pat[i] /\ fn_match(name, pat, j + 1, i + 1)

\* fnmatch.fnmatch(name, pat): both normcased, then matched.
fnmatch(plat, name, pat) == fn_match(normcase(plat, name), normcase(plat, pat), 1, 1)

\* glob._ishidden
ishidden(s) == Len(s) > 0 /\ s[1] = "."

\* The entries of a folder.  children: the listing of a subdirectory.
File(name) == [name |-> name, isdir |-> FALSE, children |-> <<>>]

Folder(name, children) == [name |-> name, isdir |-> TRUE, children |-> children]

\* glob._glob1(dirname, pattern, dironly): the names of the listing (the
\* directories only when dironly) that fnmatch the pattern; a name that
\* starts with a dot is dropped unless the pattern starts with a dot.
glob1(plat, listing, pattern, dironly) ==
    LET Keep(e) ==
            /\ dironly => e.isdir
            /\ ishidden(pattern) \/ ~ishidden(e.name)
            /\ fnmatch(plat, e.name, pattern)
    IN  SelectSeq(listing, Keep)

\* The folders glob looks into: base_dir itself when its name holds no
\* magic character, else every directory of the parent folder (listing
\* par) whose name matches base_dir read as a pattern.
glob_dirs(plat, par, base) ==
    LET IsBase(e) == e.isdir /\ e.name = base
    IN  IF has_magic(base) THEN glob1(plat, par, base, TRUE) ELSE SelectSeq(par, IsBase)

\* os.path.join(dirname, name) for every name of glob1(dirname, "*.docx"),
\* over the folders dirs[k..], in order.
RECURSIVE glob_in_dirs(_, _, _)
glob_in_dirs(plat, dirs, k) ==
    IF k > Len(dirs) THEN <<>>
    ELSE LET names == glob1(plat, dirs[k].children, STAR_DOCX, FALSE)
         IN  [i \in 1..Len(names) |-> [dir |-> dirs[k].name, name |-> names[i].name]]
             \o glob_in_dirs(plat, dirs, k + 1)

\* glob.glob(os.path.join(base_dir, "*.docx")).  The path above base_dir is
\* taken to hold no magic character.
glob(plat, par, base) == glob_in_dirs(plat, glob_dirs(plat, par, base), 1)

\* os.path.basename of a path made by glob.
basename(path) == path.name

\* if not os.path.basename(f).startswith("~$")
IsKept(f) == ~startswith(basename(f), TILDE_DOLLAR)

\* list_docx_files(base_dir): the glob matches, in glob's order, without
\* the names that start with "~$".
list_docx_files(plat, par, base) == SelectSeq(glob(plat, par, base), IsKept)

\* The index of the last "." of s (0 when there is none).
RECURSIVE rfind_dot(_, _)
rfind_dot(s, i) == IF i = 0 THEN 0 ELSE IF s[i] = "." THEN i ELSE rfind_dot(s, i - 1)

\* os.path.splitext(p)[0] on the name: cut at the last dot, unless only dots
\* precede it.
splitext_root(name) ==
    LET d == rfind_dot(name, Len(name))
    IN  IF d > 0 /\ \E j \in 1..(d - 1) : name[j] # "."
        THEN SubSeq(name, 1, d - 1)
        ELSE name

\* pdf_path = os.path.splitext(docx_path)[0] + ".pdf"
pdf_path_of(docx_path) ==
    [dir |-> docx_path.dir, name |-> splitext_root(docx_path.name) \o PDF]

-----------------------------------------------------------------------------
(* int(index / total * 100): Python float arithmetic *)

\* index / total and the product with 100 are IEEE-754 doubles: 53
\* significant bits, each operation rounded to nearest, ties to even.  A
\* significand is held as three limbs <<m1, m2, m3>>, its value
\* m1 * 2^36 + m2 * 2^18 + m3, so that every intermediate number stays
\* below 2^31.
LIMB == 262144

\* The least e >= 0 with k * 2^e >= n: k / n = q * 2^(-e)
\* with 1 <= q < 2.
RECURSIVE float_exponent(_, _, _)
float_exponent(k, n, e) ==
    IF k * (2 ^ e) >= n THEN e ELSE float_exponent(k, n, e + 1)

\* A significand plus one unit in the last place, with the carries.
limbs_inc(m) ==
    LET a3 == m[3] + 1
        a2 == m[2] + (IF a3 = LIMB THEN 1 ELSE 0)
        a1 == m[1] + (IF a2 = LIMB THEN 1 ELSE 0)
    IN  <<a1, a2 % LIMB, a3 % LIMB>>

\* k / n (Python's true division of two ints, 1 <= k <= n):
\* the 53-bit significand of the quotient, by long division, rounded to
\* nearest even on the remainder.  The double is significand * 2^(-e - 52).
true_div(k, n) ==
    LET e == float_exponent(k, n, 0)
        n1 == k * (2 ^ e) * 65536
        d1 == n1 \div n
        n2 == (n1 % n) * LIMB
        d2 == n2 \div n
        n3 == (n2 % n) * LIMB
        d3 == n3 \div n
        r3 == n3 % n
        up == 2 * r3 > n \/ (2 * r3 = n /\ d3 % 2 = 1)
    IN  [e |-> e, m |-> IF up THEN limbs_inc(<<d1, d2, d3>>) ELSE <<d1, d2, d3>>]

\* The number of bits of n >= 1.
RECURSIVE bit_length(_)
bit_length(n) == IF n <= 1 THEN 1 ELSE 1 + bit_length(n \div 2)

\* x * 100 for the double x: the exact product of the significand with 100,
\* rounded back to 53 bits (nearest, ties to even).  The result keeps the
\* exponent of x; its low s bits are zero.
mul_100(x) ==
    LET q3 == x.m[3] * 100
        q2 == x.m[2] * 100 + (q3 \div LIMB)
        p1 == x.m[1] * 100 + (q2 \div LIMB)
        l2 == q2 % LIMB
        l3 == q3 % LIMB
        s == bit_length(p1) - 17
        dropped == l3 % (2 ^ s)
        half == 2 ^ (s - 1)
        up == dropped > half \/ (dropped = half /\ (l3 \div (2 ^ s)) % 2 = 1)
        t3 == l3 - dropped + (IF up THEN 2 ^ s ELSE 0)
        t2 == l2 + (IF t3 >= LIMB THEN 1 ELSE 0)
        t1 == p1 + (IF t2 >= LIMB THEN 1 ELSE 0)
    IN  [e |-> x.e, m |-> <<t1, t2 % LIMB, t3 % LIMB>>]

\* int(x): truncation of the double significand * 2^(-e - 52).
int_of(x) == x.m[1] \div (2 ^ (x.e + 16))

\* percent = int(index / total * 100)
Percent(k, n) == int_of(mul_100(true_div(k, n)))

-----------------------------------------------------------------------------
(* The state after start-up *)

\* What base_dir may hold.
Universe ==
    { File(<<"a">> \o DOCX),
      File(<<"B", ".", "D", "O", "C", "X">>),
      File(<<"c">> \o DOCX),
      File(TILDE_DOLLAR \o <<"b">> \o DOCX),
      File(<<".", "a">> \o DOCX),
      Folder(<<"s", "u", "b">>, <<File(<<"c">> \o DOCX)>>) }

\* Every listing of at most n distinct entries, in any order (the order in
\* which the operating system enumerates the folder).
Listings(n) ==
    UNION { { l \in [1..m -> Universe] : \A i, j \in 1..m : i # j => l[i] # l[j] } :
            m \in 0..n }

\* The names base_dir may have: a plain one, one with a character class
\* and, where the file system allows the character, one with a star.
BaseNames(plat) ==
    {<<"x">>, <<"x", "[", "1", "]">>} \cup (IF plat = "posix" THEN {<<"x", "*">>} ELSE {})

\* A folder beside base_dir, with one document.
Sibling == Folder(<<"x", "1">>, <<File(<<"q">> \o DOCX)>>)

\* The listings of base_dir's parent: base_dir alone, or base_dir and the
\* sibling in either order.
Parents(base) ==
    { <<Folder(base, l)>> : l \in Listings(MaxEntries) }
    \cup UNION { { <<Folder(base, l), Sibling>>, <<Sibling, Folder(base, l)>> } :
                 l \in Listings(MaxEntries - 1) }

NoPath == [dir |-> <<>>, name |-> <<>>]

NoDoc == [h |-> 0, job |-> 0]

Init ==
    /\ platform \in {"posix", "nt"}
    /\ base_dir \in BaseNames(platform)
    /\ parent \in Parents(base_dir)
    /\ pc = "main"
    /\ docx_files = <<>>
    /\ total = 0
    /\ index = 0
    /\ pdf_path = NoPath
    /\ percent = 0
    /\ word = 0
    /\ doc = NoDoc
    /\ out = <<>>
    /\ calls = <<>>
    /\ status = <<>>
    /\ errors = <<>>
    /\ running = {}
    /\ openDocs = {}
    /\ pdfs = {}
    /\ comInit = 0
    /\ exit_code = -1

\* One external call in the log: the operation, the path it was given
\* (NoPath when none), the job it served (0 before the loop), whether it
\* returned (TRUE) or raised (FALSE), and the Word handle it was made on
\* (0 when none).
Call(op, arg, ok) == [op |-> op, arg |-> arg, job |-> index, ok |-> ok, h |-> word]

\* print(...) of one line, and input(...) of one prompt.
Line(kind, arg) == <<kind, arg>>

Prompt == Line("input", "Press Enter to exit...")

\* An exception nothing catches: Python prints the traceback and the
\* process ends with status 1; no prompt is shown.
Uncaught(printed, what) ==
    /\ pc' = "crashed"
    /\ exit_code' = 1
    /\ out' = Append(printed, Line("Traceback", what))

-----------------------------------------------------------------------------
(* __main__ and the head of convert_all_docx_in_folder *)

\* print_intro, list_docx_files, and either the "no files" branch up to its
\* input() or the listing of the files found.
Discover ==
    /\ pc = "main"
    /\ LET found == list_docx_files(platform, parent, base_dir)
       IN  /\ docx_files' = found
           /\ IF found = <<>>
              THEN /\ out' = out \o << Line("banner", "MK DOCX to PDF Converter v2.1"),
                                      Line("No .docx files found in this folder:", base_dir),
                                      Prompt >>
                   /\ pc' = "no_files_input"
                   /\ UNCHANGED <<total, status, errors>>
              ELSE /\ total' = Len(found)
                   /\ out' = out \o << Line("banner", "MK DOCX to PDF Converter v2.1"),
                                      Line("Files to be converted:", Len(found)) >>
                   /\ status' = [i \in 1..Len(found) |-> "pending"]
                   /\ errors' = [i \in 1..Len(found) |-> ""]
                   /\ pc' = "ensure_pywin32"
    /\ UNCHANGED <<platform, base_dir, parent, index, pdf_path, percent, word, doc, calls, running,
                   openDocs, pdfs, comInit, exit_code>>

\* The user answers the prompt of the "no files" branch; the function returns.
NoFilesReturn ==
    /\ pc = "no_files_input"
    /\ pc' = "returned"
    /\ exit_code' = 0
    /\ UNCHANGED <<platform, base_dir, parent, docx_files, total, index, pdf_path, percent, word, doc, out,
                   calls, status, errors, running, openDocs, pdfs, comInit>>

-----------------------------------------------------------------------------
(* ensure_pywin32 *)

\* import pythoncom, win32com.client: returns the modules, or ImportError.
ImportPywin32 ==
    /\ pc = "ensure_pywin32"
    /\ \E ok \in BOOLEAN :
         /\ calls' = Append(calls, Call("import", NoPath, ok))
         /\ IF ok
            THEN pc' = "CoInitialize" /\ out' = out
            ELSE /\ pc' = "pip_install"
                 /\ out' = out \o << Line("Required modules are missing.", ""),
                                    Line("Attempting to install 'pywin32' via pip...", "") >>
    /\ UNCHANGED <<platform, base_dir, parent, docx_files, total, index, pdf_path, percent, word, doc,
                   status, errors, running, openDocs, pdfs, comInit, exit_code>>

\* subprocess.check_call(pip install pywin32): on failure the messages and
\* the prompt before sys.exit(1).
PipInstall ==
    /\ pc = "pip_install"
    /\ \E ok \in BOOLEAN :
         /\ calls' = Append(calls, Call("pip", NoPath, ok))
         /\ IF ok
            THEN /\ pc' = "reimport"
                 /\ out' = Append(out, Line("Successfully installed 'pywin32'.", ""))
            ELSE /\ pc' = "exit_input"
                 /\ out' = out \o << Line("Failed to install 'pywin32' automatically.", ""),
                                    Prompt >>
    /\ UNCHANGED <<platform, base_dir, parent, docx_files, total, index, pdf_path, percent, word, doc,
                   status, errors, running, openDocs, pdfs, comInit, exit_code>>

\* importlib.import_module after the installation.
Reimport ==
    /\ pc = "reimport"
    /\ \E ok \in BOOLEAN :
         /\ calls' = Append(calls, Call("reimport", NoPath, ok))
         /\ IF ok
            THEN pc' = "CoInitialize" /\ out' = out
            ELSE /\ pc' = "exit_input"
                 /\ out' = out \o << Line("Installation finished, but 'pywin32' still cannot be imported.", ""),
                                    Prompt >>
    /\ UNCHANGED <<platform, base_dir, parent, docx_files, total, index, pdf_path, percent, word, doc,
                   status, errors, running, openDocs, pdfs, comInit, exit_code>>

\* The user answers the prompt; sys.exit(1).
SysExit ==
    /\ pc = "exit_input"
    /\ pc' = "exited"
    /\ exit_code' = 1
    /\ UNCHANGED <<platform, base_dir, parent, docx_files, total, index, pdf_path, percent, word, doc, out,
                   calls, status, errors, running, openDocs, pdfs, comInit>>

-----------------------------------------------------------------------------
(* Starting Word *)

\* The handle DispatchEx returns: a new Word instance at every call.
NewHandle == 1 + Cardinality({i \in DOMAIN calls : calls[i].op = "DispatchEx" /\ calls[i].ok})

\* print("Starting conversion ..."), then pythoncom.CoInitialize(): the
\* line is printed whether or not the call returns.
CoInitialize ==
    /\ pc = "CoInitialize"
    /\ \E ok \in BOOLEAN :
         /\ calls' = Append(calls, Call("CoInitialize", NoPath, ok))
         /\ IF ok
            THEN /\ comInit' = comInit + 1
                 /\ pc' = "DispatchEx"
                 /\ out' = Append(out, Line("Starting conversion using Microsoft Word...", ""))
                 /\ UNCHANGED exit_code
            ELSE /\ UNCHANGED comInit
                 /\ Uncaught(Append(out, Line("Starting conversion using Microsoft Word...", "")),
                             "CoInitialize")
    /\ UNCHANGED <<platform, base_dir, parent, docx_files, total, index, pdf_path, percent, word, doc,
                   status, errors, running, openDocs, pdfs>>

\* word = win32com_client.DispatchEx("Word.Application")
DispatchEx ==
    /\ pc = "DispatchEx"
    /\ \E ok \in BOOLEAN :
         /\ calls' = Append(calls, Call("DispatchEx", NoPath, ok))
         /\ IF ok
            THEN /\ word' = NewHandle
                 /\ running' = running \cup {NewHandle}
                 /\ pc' = "Visible"
                 /\ UNCHANGED <<out, exit_code>>
            ELSE /\ UNCHANGED <<word, running>>
                 /\ Uncaught(out, "DispatchEx")
    /\ UNCHANGED <<platform, base_dir, parent, docx_files, total, index, pdf_path, percent, doc,
                   status, errors, openDocs, pdfs, comInit>>

\* word.Visible = False, the last statement before the try block.
SetVisible ==
    /\ pc = "Visible"
    /\ \E ok \in BOOLEAN :
         /\ calls' = Append(calls, Call("Visible", NoPath, ok))
         /\ IF ok
            THEN pc' = "for" /\ UNCHANGED <<out, exit_code>>
            ELSE Uncaught(out, "Visible")
    /\ UNCHANGED <<platform, base_dir, parent, docx_files, total, index, pdf_path, percent, word, doc,
                   status, errors, running, openDocs, pdfs, comInit>>

-----------------------------------------------------------------------------
(* The loop over the files *)

\* ForNext as it would be if Word were started again for every file.
ForNextReacquire ==
    /\ pc = "for"
    /\ IF index < total
       THEN /\ index' = index + 1
            /\ pdf_path' = pdf_path_of(docx_files[index + 1])
            /\ out' = out \o << Line("Converting file:", <<index + 1, total>>),
                               Line("  DOCX:", basename(docx_files[index + 1])),
                               Line("  PDF :", basename(pdf_path_of(docx_files[index + 1]))) >>
            /\ calls' = Append(calls, Call("DispatchEx", NoPath, TRUE))
            /\ word' = NewHandle
            /\ running' = running \cup {NewHandle}
            /\ pc' = "Open"
       ELSE /\ pc' = "Quit"
            /\ UNCHANGED <<index, pdf_path, out, calls, word, running>>
    /\ UNCHANGED <<platform, base_dir, parent, docx_files, total, percent, doc, status, errors,
                   openDocs, pdfs, comInit, exit_code>>

\* for index, docx_path in enumerate(docx_files, start=1): the next file
\* with its pdf_path and the three lines printed for it, or the end of the
\* loop, which enters the finally block.
ForNext ==
    /\ pc = "for"
    /\ IF index < total
       THEN /\ index' = index + 1
            /\ pdf_path' = pdf_path_of(docx_files[index + 1])
            /\ out' = out \o << Line("Converting file:", <<index + 1, total>>),
                               Line("  DOCX:", basename(docx_files[index + 1])),
                               Line("  PDF :", basename(pdf_path_of(docx_files[index + 1]))) >>
            /\ pc' = "Open"
       ELSE /\ pc' = "Quit"
            /\ UNCHANGED <<index, pdf_path, out>>
    /\ UNCHANGED <<platform, base_dir, parent, docx_files, total, percent, word, doc, calls, status, errors,
                   running, openDocs, pdfs, comInit, exit_code>>

\* str(e) of the exception a call on Word raises: the text tells which call.
com_error(op) ==
    CASE op = "Open" -> "Open failed"
      [] op = "ExportAsFixedFormat" -> "ExportAsFixedFormat failed"
      [] op = "Close" -> "Close failed"

\* ExceptHandler as it would be if the try statement enclosed the loop
\* instead of the loop's body: the first failure ends the batch.
ExceptHandlerBreak(what) ==
    /\ status' = [status EXCEPT ![index] = "failed"]
    /\ errors' = [errors EXCEPT ![index] = what]
    /\ percent' = Percent(index, total)
    /\ out' = out \o << Line("Status: ERROR", Percent(index, total)),
                       Line("Error while processing", basename(docx_files[index])),
                       Line("    ", what) >>
    /\ pc' = "Quit"

\* except Exception as e: the percent, the ERROR line, the file name and the
\* exception text; the loop goes on with the next file.
ExceptHandler(what) ==
    /\ status' = [status EXCEPT ![index] = "failed"]
    /\ errors' = [errors EXCEPT ![index] = what]
    /\ percent' = Percent(index, total)
    /\ out' = out \o << Line("Status: ERROR", Percent(index, total)),
                       Line("Error while processing", basename(docx_files[index])),
                       Line("    ", what) >>
    /\ pc' = "for"

\* doc = word.Documents.Open(docx_path)
DocumentsOpen ==
    /\ pc = "Open"
    /\ \E ok \in BOOLEAN :
         /\ calls' = Append(calls, Call("Open", docx_files[index], ok))
         /\ IF ok
            THEN /\ doc' = [h |-> word, job |-> index]
                 /\ openDocs' = openDocs \cup {[h |-> word, job |-> index]}
                 /\ status' = [status EXCEPT ![index] = "opened"]
                 /\ pc' = "ExportAsFixedFormat"
                 /\ UNCHANGED <<errors, percent, out>>
            ELSE /\ UNCHANGED <<doc, openDocs>>
                 /\ ExceptHandler(com_error("Open"))
    /\ UNCHANGED <<platform, base_dir, parent, docx_files, total, index, pdf_path, word, running, pdfs,
                   comInit, exit_code>>

\* ExportAsFixedFormat as it would be if a failed export were ignored.
ExportAsFixedFormatSwallow ==
    /\ pc = "ExportAsFixedFormat"
    /\ \E ok \in BOOLEAN :
         /\ calls' = Append(calls, Call("ExportAsFixedFormat", pdf_path, ok))
         /\ pdfs' = IF ok THEN pdfs \cup {pdf_path} ELSE pdfs
         /\ status' = [status EXCEPT ![index] = "exported"]
         /\ pc' = "Close"
         /\ UNCHANGED <<errors, percent, out>>
    /\ UNCHANGED <<platform, base_dir, parent, docx_files, total, index, pdf_path, word, doc, running,
                   openDocs, comInit, exit_code>>

\* doc.ExportAsFixedFormat(OutputFileName=pdf_path, ...)
ExportAsFixedFormat ==
    /\ pc = "ExportAsFixedFormat"
    /\ \E ok \in BOOLEAN :
         /\ calls' = Append(calls, Call("ExportAsFixedFormat", pdf_path, ok))
         /\ IF ok
            THEN /\ pdfs' = pdfs \cup {pdf_path}
                 /\ status' = [status EXCEPT ![index] = "exported"]
                 /\ pc' = "Close"
                 /\ UNCHANGED <<errors, percent, out>>
            ELSE /\ UNCHANGED pdfs
                 /\ ExceptHandler(com_error("ExportAsFixedFormat"))
    /\ UNCHANGED <<platform, base_dir, parent, docx_files, total, index, pdf_path, word, doc, running,
                   openDocs, comInit, exit_code>>

\* doc.Close(SaveChanges=False), then the percent and the OK line.  When
\* Close raises, whether Word still holds the document is Word's choice.
DocClose ==
    /\ pc = "Close"
    /\ \E ok \in BOOLEAN :
         /\ calls' = Append(calls, Call("Close", NoPath, ok))
         /\ IF ok
            THEN /\ openDocs' = openDocs \ {doc}
                 /\ status' = [status EXCEPT ![index] = "succeeded"]
                 /\ percent' = Percent(index, total)
                 /\ out' = Append(out, Line("Status: OK", Percent(index, total)))
                 /\ pc' = "for"
                 /\ UNCHANGED errors
            ELSE /\ \E stays \in BOOLEAN :
                      openDocs' = IF stays THEN openDocs ELSE openDocs \ {doc}
                 /\ ExceptHandler(com_error("Close"))
    /\ UNCHANGED <<platform, base_dir, parent, docx_files, total, index, pdf_path, word, doc, running,
                   pdfs, comInit, exit_code>>

-----------------------------------------------------------------------------
(* finally, and the end of the run *)

\* finally: word.Quit().  Word closes its documents when it quits.
WordQuit ==
    /\ pc = "Quit"
    /\ \E ok \in BOOLEAN :
         /\ calls' = Append(calls, Call("Quit", NoPath, ok))
         /\ IF ok
            THEN /\ running' = running \ {word}
                 /\ openDocs' = {d \in openDocs : d.h # word}
                 /\ pc' = "CoUninitialize"
                 /\ UNCHANGED <<out, exit_code>>
            ELSE /\ UNCHANGED <<running, openDocs>>
                 /\ Uncaught(out, "Quit")
    /\ UNCHANGED <<platform, base_dir, parent, docx_files, total, index, pdf_path, percent, word, doc,
                   status, errors, pdfs, comInit>>

\* finally: pythoncom.CoUninitialize()
CoUninitialize ==
    /\ pc = "CoUninitialize"
    /\ calls' = Append(calls, Call("CoUninitialize", NoPath, TRUE))
    /\ comInit' = comInit - 1
    /\ pc' = "summary"
    /\ UNCHANGED <<platform, base_dir, parent, docx_files, total, index, pdf_path, percent, word, doc, out,
                   status, errors, running, openDocs, pdfs, exit_code>>

\* The lines after the try statement, up to the last input().
Summary ==
    /\ pc = "summary"
    /\ out' = out \o << Line("All conversions finished.", ""),
                       IF total = 1
                       THEN Line("Created PDF file:", basename(pdf_path_of(docx_files[1])))
                       ELSE Line("PDF files were created next to each original DOCX file.", ""),
                       Prompt >>
    /\ pc' = "final_input"
    /\ UNCHANGED <<platform, base_dir, parent, docx_files, total, index, pdf_path, percent, word, doc,
                   calls, status, errors, running, openDocs, pdfs, comInit, exit_code>>

\* The user answers the last prompt; the function returns and the script ends.
FinalReturn ==
    /\ pc = "final_input"
    /\ pc' = "returned"
    /\ exit_code' = 0
    /\ UNCHANGED <<platform, base_dir, parent, docx_files, total, index, pdf_path, percent, word, doc, out,
                   calls, status, errors, running, openDocs, pdfs, comInit>>

-----------------------------------------------------------------------------
(* The script *)

Next ==
    \/ Discover
    \/ NoFilesReturn
    \/ ImportPywin32
    \/ PipInstall
    \/ Reimport
    \/ SysExit
    \/ CoInitialize
    \/ DispatchEx
    \/ SetVisible
    \/ ForNext
    \/ DocumentsOpen
    \/ ExportAsFixedFormat
    \/ DocClose
    \/ WordQuit
    \/ CoUninitialize
    \/ Summary
    \/ FinalReturn

Spec == Init /\ [][Next]_vars

Ended == pc \in {"returned", "exited", "crashed"}

-----------------------------------------------------------------------------
(* The percent expression on its own, for batches of up to MaxTotal files *)

InitPercent ==
    /\ total \in 1..MaxTotal
    /\ index \in 1..total
    /\ pc = "percent"
    /\ platform = "nt"
    /\ base_dir = <<"x">>
    /\ parent = <<Folder(<<"x">>, <<>>)>>
    /\ docx_files = <<>>
    /\ pdf_path = NoPath
    /\ percent = 0
    /\ word = 0
    /\ doc = NoDoc
    /\ out = <<>>
    /\ calls = <<>>
    /\ status = <<>>
    /\ errors = <<>>
    /\ running = {}
    /\ openDocs = {}
    /\ pdfs = {}
    /\ comInit = 0
    /\ exit_code = -1

\* percent = int(index / total * 100) and the progress it prints.
ComputePercent ==
    /\ pc = "percent"
    /\ percent' = Percent(index, total)
    /\ out' = Append(out, Line("Progress:", Percent(index, total)))
    /\ pc' = "percent_done"
    /\ UNCHANGED <<platform, base_dir, parent, docx_files, total, index, pdf_path, word, doc, calls, status,
                   errors, running, openDocs, pdfs, comInit, exit_code>>

NextPercent == ComputePercent

SpecPercent == InitPercent /\ [][NextPercent]_vars

-----------------------------------------------------------------------------
(* What the call log and the transcript say about a run *)

JobOps == {"Open", "ExportAsFixedFormat", "Close"}

IsOpenCall(c) == c.op = "Open"

\* The Documents.Open calls, in the order they were made.
Opens == SelectSeq(calls, IsOpenCall)

\* The calls made for job j, in order.
OwnCalls(j) ==
    LET Own(c) == c.op \in JobOps /\ c.job = j
    IN  SelectSeq(calls, Own)

OwnOps(j) == [i \in 1..Len(OwnCalls(j)) |-> OwnCalls(j)[i].op]

\* What job j's own calls amount to: succeeded when Open, Export and Close
\* were made in that order and all returned, failed otherwise.
OwnOutcome(j) ==
    IF /\ OwnOps(j) = <<"Open", "ExportAsFixedFormat", "Close">>
       /\ \A i \in 1..3 : OwnCalls(j)[i].ok
    THEN "succeeded"
    ELSE "failed"

\* Job j is over: the loop has left it.
Finished(j) == j < index \/ (j = index /\ pc \notin JobOps)

\* The for loop has ended (the finally block was entered).
LoopDone == pc = "Quit" \/ \E i \in DOMAIN calls : calls[i].op = "Quit"

NumCalls(op) == Cardinality({i \in DOMAIN calls : calls[i].op = op})

NumOk(op) == Cardinality({i \in DOMAIN calls : calls[i].op = op /\ calls[i].ok})

\* Word.Application was dispatched: the engine has been acquired.
Acquired == NumOk("DispatchEx") > 0

NumSucceeded == Cardinality({j \in DOMAIN status : status[j] = "succeeded"})

NumFailed == Cardinality({j \in DOMAIN status : status[j] = "failed"})

Printed(kind) == \E i \in DOMAIN out : out[i][1] = kind

NumPrinted(kind) == Cardinality({i \in DOMAIN out : out[i][1] = kind})

-----------------------------------------------------------------------------
(* Claims *)

\* C1: a failure of job k at open, export or close does not stop the batch.
\* The files are opened one by one in discovery order, each exactly once;
\* when the loop has ended every discovered file has been attempted; and
\* the outcome of every finished job is the one its own three calls give,
\* whatever happened to the jobs before it.
C1_FailureIsIsolated ==
    /\ Len(Opens) <= total
    /\ \A i \in 1..Len(Opens) : Opens[i].job = i /\ Opens[i].arg = docx_files[i]
    /\ LoopDone => Len(Opens) = total
    /\ \A j \in 1..total :
         Finished(j) => status[j] = OwnOutcome(j)

\* A job failed and the job after it was attempted and succeeded.
C1_Witness ==
    \E k \in 1..total :
        k < total /\ status[k] = "failed" /\ status[k + 1] = "succeeded"

\* C2 (as claimed): once Word.Application is dispatched, every way out of
\* the run has performed word.Quit and CoUninitialize exactly once, so no
\* Word instance and no COM initialisation is left behind.
C2_ShutdownOnEveryPath ==
    (Ended /\ Acquired) =>
        /\ NumOk("Quit") = 1
        /\ NumCalls("CoUninitialize") = 1
        /\ running = {}
        /\ comInit = 0

\* C3: with no file found the engine is never acquired (no import, no
\* CoInitialize, no DispatchEx; the run prints the no-files message, asks
\* for Enter and returns).  With files found the acquisition sequence is
\* entered exactly once, before the first job, Word is dispatched at most
\* once, and every call of every job is made on that one handle.
C3_AcquiredOncePerRun ==
    /\ NumCalls("import") <= 1
    /\ NumCalls("CoInitialize") <= 1
    /\ NumCalls("DispatchEx") <= 1
    /\ (pc # "main" /\ docx_files = <<>>) =>
           /\ calls = <<>>
           /\ word = 0
           /\ Printed("No .docx files found in this folder:")
           /\ Printed("input")
           /\ pc \in {"no_files_input", "returned"}
    /\ (pc # "main" /\ docx_files # <<>> /\ pc # "ensure_pywin32") =>
           NumCalls("import") = 1
    /\ \A i \in DOMAIN calls :
           calls[i].op \in JobOps =>
               /\ calls[i].h = word
               /\ word # 0
               /\ \E d \in 1..(i - 1) : calls[d].op = "DispatchEx" /\ calls[d].ok
    /\ (Len(Opens) > 0 \/ pc = "summary") => NumOk("DispatchEx") = 1

\* A completed run of at least two jobs, all made on the one handle.
C3_Witness == pc = "returned" /\ total >= 2 /\ Len(Opens) = total /\ NumOk("DispatchEx") = 1

\* What the final summary says was produced: "Created PDF file: <name>" for
\* a single file, "PDF files were created next to each original DOCX file"
\* otherwise; it names no failure.
summary_reports == [succeeded |-> total, failed |-> 0]

\* C4 (as claimed): the final summary tells how many jobs succeeded and how
\* many failed, and the numbers are the actual ones.
C4_SummaryCountsAreActual ==
    Printed("All conversions finished.") =>
        /\ summary_reports.succeeded = NumSucceeded
        /\ summary_reports.failed = NumFailed

\* The engine could not be obtained: the installation or the import after
\* it failed, or Word.Application could not be created.
EngineUnavailable ==
    \E i \in DOMAIN calls : calls[i].op \in {"pip", "reimport", "DispatchEx"} /\ ~calls[i].ok

\* C5 (as claimed): with files found and no engine to be had, the run ends
\* with a message, waits for the user's Enter, exits with a non-zero status
\* and attempts no job.
C5_FatalPathAsksAndExits ==
    (Ended /\ total > 0 /\ EngineUnavailable) =>
        /\ exit_code # 0
        /\ Printed("input")
        /\ Len(out) > 2
        /\ Opens = <<>>

\* C6 (as claimed): once the engine is acquired the run ends normally, with
\* the summary and the last prompt, however many jobs failed; only a run
\* that could not acquire the engine ends fatally.
C6_NormalEndOnceAcquired ==
    (Ended /\ Acquired) =>
        /\ pc = "returned"
        /\ exit_code = 0
        /\ Printed("All conversions finished.")
        /\ out[Len(out)] = Prompt

\* The claim's matching file: a file whose name ends with ".docx" (in any
\* case on Windows, where file names are case-insensitive) and does not
\* begin with "~$".
IsSourceFile(e) ==
    /\ ~e.isdir
    /\ endswith(normcase(platform, e.name), DOCX)
    /\ ~startswith(e.name, TILDE_DOLLAR)

\* The listing of base_dir.
BaseListing == (CHOOSE e \in {parent[i] : i \in DOMAIN parent} : e.name = base_dir).children

\* C7 (as claimed): list_docx_files returns exactly the files of the folder
\* that have the source extension and are no lock files, and nothing else.
C7_DiscoveryIsExact ==
    pc # "main" =>
        LET want == SelectSeq(BaseListing, IsSourceFile)
        IN  /\ Len(docx_files) = Len(want)
            /\ \A i \in 1..Len(want) :
                   docx_files[i] = [dir |-> base_dir, name |-> want[i].name]

\* C8 (as claimed): the percent printed after job k of N is floor(k/N * 100).
C8_PercentIsFloor ==
    pc = "percent_done" =>
        /\ percent = (index * 100) \div total
        /\ out[Len(out)] = Line("Progress:", (index * 100) \div total)

\* C9: every job is attempted at most once and follows open, export, close.
\* A job is succeeded only with its Open, Export and Close made in that
\* order and all returned; a job one of whose calls raised is failed, made
\* no call after the one that raised, and has that call's error text; a
\* finished job is succeeded or failed, never neither; and each finished job
\* got exactly one status line, OK or ERROR.
C9_JobStateMachine ==
    /\ \A j \in 1..total :
         LET own == OwnCalls(j)
             ops == OwnOps(j)
         IN  /\ Cardinality({i \in DOMAIN calls : calls[i].op = "Open" /\ calls[i].job = j}) <= 1
             /\ \E n \in 0..3 : ops = SubSeq(<<"Open", "ExportAsFixedFormat", "Close">>, 1, n)
             /\ \A i \in 1..(Len(own) - 1) : own[i].ok
             /\ status[j] = "succeeded" <=> (Len(own) = 3 /\ \A i \in 1..3 : own[i].ok)
             /\ status[j] = "failed" <=> (Len(own) > 0 /\ ~own[Len(own)].ok)
             /\ status[j] = "failed" => errors[j] = com_error(ops[Len(ops)])
             /\ status[j] = "succeeded" => errors[j] = ""
             /\ Finished(j) => status[j] \in {"succeeded", "failed"}
             /\ status[j] = "pending" => own = <<>>
    /\ NumPrinted("Status: OK") = NumSucceeded
    /\ NumPrinted("Status: ERROR") = NumFailed

\* One job succeeded, one failed at export and one failed at close.
C9_Witness ==
    \E j, k, l \in 1..total :
        /\ status[j] = "succeeded"
        /\ status[k] = "failed" /\ errors[k] = "ExportAsFixedFormat failed"
        /\ status[l] = "failed" /\ errors[l] = "Close failed"

\* C10 (as claimed): at most one document is open in Word at any time.
C10_AtMostOneDocumentOpen == Cardinality(openDocs) <= 1

====
